---- MODULE Spec2Model ----
(***************************************************************************)
(* Google Map Tiles for MapLibre GL: the Tile Client (src/tiles.ts) and    *)
(* the Source Manager (src/maplibre_plugin.ts) as a state machine, and the *)
(* logo control of src/src/logo_control.ts on its own (LogoSpec).          *)
(*                                                                         *)
(* One client/manager pair and one map are modelled.  Every synchronous    *)
(* call is one action.  An async call is two actions: the synchronous      *)
(* prefix up to `await fetch(...)`, which appends the request to           *)
(* `pending`, and FetchSettles, which settles any pending request (in any  *)
(* order) and runs the continuation of the call that awaits it.            *)
(* Strings are TLA+ strings built with \o as the template literals build   *)
(* them.                                                                   *)
(***************************************************************************)
EXTENDS Integers, Sequences, FiniteSets, TLC

VARIABLES
    apiKey,             \* GoogleMapTiles.apiKey
    session,            \* GoogleMapTiles.session (Null or a response body)
    handle,             \* the caller holds a reference to the manager
    customAttribution,  \* attributionControl.options.customAttribution
    attrAttached,       \* the attribution control's _map is set (it is on a map)
    redraws,            \* calls of attributionControl._updateAttributions()
    sources,            \* the map's sources
    layers,             \* the map's layers, in order
    controls,           \* map._controls, in order
    handlers,           \* "sourcedata" handlers this manager registered
    logosCreated,       \* GoogleLogoControl objects constructed so far
    pending,            \* fetch requests in flight, in the order issued
    result,             \* outcome of the call that completed last
    calls,              \* calls made and map events fired so far
    img,                \* src/logo_control.ts: GoogleLogoControl.img of each
                        \* control (0 for undefined, else the element)
    imgCreated,         \* image elements created by document.createElement
    imgInDom,           \* image elements that have a parent node
    logoResult          \* outcome of the last call on a logo control

vars == <<apiKey, session, handle, customAttribution, attrAttached, redraws,
          sources, layers, controls, handlers, logosCreated, pending, result,
          calls, img, imgCreated, imgInDom, logoResult>>

logoVars == <<img, imgCreated, imgInDom, logoResult>>

clientVars == <<apiKey, session>>
attrVars == <<customAttribution, attrAttached, redraws>>
mapVars == <<sources, layers, controls, handlers, logosCreated>>

----------------------------------------------------------------------------
(* Bound of the model: calls made by the page plus map events fired.  Every *)
(* list and counter of the state grows only in a call or an event.         *)

MaxCalls == 4

\* Logo controls of src/logo_control.ts that are exercised on their own
MaxLogos == 2

----------------------------------------------------------------------------
(* Values *)

\* JavaScript null / undefined for object-valued slots and for string slots
Null == [null |-> TRUE]
Undefined == "undefined"

API_BASE_URL == "https://tile.googleapis.com"

Keys == {"test-api-key"}
KeyArgs == Keys \cup {""}

defaultSessionOptions == [mapType |-> "roadmap", language |-> "en-US", region |-> "us"]

\* options arguments a caller passes: Null stands for an omitted argument
OptionArgs == {Null, [mapType |-> "satellite", language |-> "en-US", region |-> "us"]}

\* create-session response bodies (SessionResponse)
SessionBodies ==
    { [session |-> "mock-session-token", expiry |-> "e1", tileWidth |-> 256,
       tileHeight |-> 256, imageFormat |-> "png"],
      [session |-> "tok2", expiry |-> "e2", tileWidth |-> 512,
       tileHeight |-> 512, imageFormat |-> "jpeg"] }

ZoomRect1 == [maxZoom |-> 21, north |-> 41, south |-> 39, east |-> -71, west |-> -79]
ZoomRect2 == [maxZoom |-> 18, north |-> 10, south |-> 5, east |-> 7, west |-> 3]

\* viewport response bodies (ViewportResponse)
ViewportBodies ==
    { [copyright |-> "Mock Copyright 2025", maxZoomRects |-> <<ZoomRect1>>],
      [copyright |-> "Other Copyright", maxZoomRects |-> <<ZoomRect2, ZoomRect1>>] }

StatusTexts == {"Error", "Forbidden"}

\* map views: the zoom is kept in halves (21 is zoom 10.5)
Views ==
    { [zoom2 |-> 20, north |-> 40, south |-> 30, east |-> -70, west |-> -80],
      [zoom2 |-> 21, north |-> 41, south |-> 39, east |-> -71, west |-> -79] }

\* arguments of a direct getViewport call
ViewportArgs == { [zoom |-> 10, north |-> 40, south |-> 30, east |-> -70, west |-> -80] }

\* tile coordinates and orientations a caller asks for
TileArgs == { <<15, 6294, 13288>> }
OrientationArgs == {90}

----------------------------------------------------------------------------
(* Error messages *)

NoActiveSession == "Session not created. Call createSession() first."
MissingApiKey == "Google Maps API key is required"
MissingMapInstance == "MapLibre map instance is required"
FetchFailed == "TypeError: Failed to fetch"
DetachedControl == "TypeError: Cannot read properties of undefined"

SessionCreationFailed(statusText) == "Error creating session: " \o statusText
ViewportFetchFailed(statusText) == "Error fetching viewport: " \o statusText
SourceExists(id) == "Source \"" \o id \o "\" already exists."

\* String.prototype.includes
Includes(s, sub) ==
    \E i \in 1..(Len(s) - Len(sub) + 1) : SubSeq(s, i, i + Len(sub) - 1) = sub

----------------------------------------------------------------------------
(* Outcomes of calls.  status: "returned"/"threw" for a synchronous call,   *)
(* "resolved"/"rejected" for the promise of an async function.  ctx tells   *)
(* an attribution refresh started by a map event ("event") from one the     *)
(* page called itself ("call"); for a refresh started by an event, url is   *)
(* the URL it requested and overtakenBy the URL of a refresh started later *)
(* whose response was applied first ("" for none), onMap whether the       *)
(* manager was on the map when the refresh started.                        *)

NoResult ==
    [op |-> "none", ctx |-> "", status |-> "returned", error |-> "",
     session |-> Null, viewport |-> Null, url |-> "", warned |-> FALSE,
     overtakenBy |-> "", onMap |-> FALSE]

Returned(op) == [NoResult EXCEPT !.op = op, !.status = "returned"]
Threw(op, msg) == [NoResult EXCEPT !.op = op, !.status = "threw", !.error = msg]
Resolved(op) == [NoResult EXCEPT !.op = op, !.status = "resolved"]
Rejected(op, msg) == [NoResult EXCEPT !.op = op, !.status = "rejected", !.error = msg]

Failed(r) == r.status \in {"threw", "rejected"}

\* how a fetch settles: type "ok" (response.ok, with the JSON body), "http"
\* (a response that is not ok, with its statusText), "reject" (transport failure)
Outcomes(kind) ==
    { [type |-> "ok", body |-> b, statusText |-> "OK"] :
        b \in IF kind = "createSession" THEN SessionBodies ELSE ViewportBodies }
    \cup { [type |-> "http", body |-> Null, statusText |-> t] : t \in StatusTexts }
    \cup { [type |-> "reject", body |-> Null, statusText |-> ""] }

----------------------------------------------------------------------------
(* Tile Client: URL builders *)

createSessionUrl(key) == API_BASE_URL \o "/v1/createSession?key=" \o key

viewportUrl(sess, key, zoom, north, south, east, west) ==
    API_BASE_URL \o "/tile/v1/viewport?session=" \o sess.session
        \o "&key=" \o key \o "&zoom=" \o ToString(zoom)
        \o "&north=" \o ToString(north) \o "&south=" \o ToString(south)
        \o "&east=" \o ToString(east) \o "&west=" \o ToString(west)

tileJSONUrlString(sess, key) ==
    API_BASE_URL \o "/v1/2dtiles/{z}/{x}/{y}?session=" \o sess.session
        \o "&key=" \o key

\* the tile URL with the x and y coordinates swapped (faulty variant)
tileUrlStringSwapped(sess, key, z, x, y, orientation) ==
    API_BASE_URL \o "/v1/2dtiles/" \o ToString(z) \o "/" \o ToString(y) \o "/"
        \o ToString(x) \o "?session=" \o sess.session \o "&key=" \o key
        \o "&orientation=" \o ToString(orientation)

tileUrlString(sess, key, z, x, y, orientation) ==
    API_BASE_URL \o "/v1/2dtiles/" \o ToString(z) \o "/" \o ToString(x) \o "/"
        \o ToString(y) \o "?session=" \o sess.session \o "&key=" \o key
        \o "&orientation=" \o ToString(orientation)

\* the `if (!this.session)` guard of getViewport, tileJSONUrl and tileUrl
HasSession(sess) == sess # Null

\* the `if (!response.ok)` test of createSession and getViewport
ResponseOk(outcome) == outcome.type = "ok"

\* a fetch request record; overtakenBy and onMap are history, not program
\* state: the URL of a request issued later whose response was applied while
\* this one was still in flight, and whether the request was issued by an
\* event while the manager's attribution control was on the map
Request(kind, ctx, method, url, body) ==
    [kind |-> kind, ctx |-> ctx, method |-> method, url |-> url, body |-> body,
     overtakenBy |-> "", onMap |-> ctx = "event" /\ attrAttached]

createSessionRequest(ctx, key, request) ==
    Request("createSession", ctx, "POST", createSessionUrl(key), request)

viewportRequest(ctx, sess, key, zoom, north, south, east, west) ==
    Request("viewport", ctx, "GET",
            viewportUrl(sess, key, zoom, north, south, east, west), Null)

\* tileJSONUrl() reading the token with `this.session?.session` in place of
\* the guard (faulty variant)
tileJSONUrlUnguarded(sess, key) ==
    [Returned("tileJSONUrl") EXCEPT
        !.url = tileJSONUrlString(
                    IF sess = Null THEN [session |-> Undefined] ELSE sess, key)]

\* tileJSONUrl(): the outcome of the call on a client holding sess
tileJSONUrl(sess, key) ==
    IF ~HasSession(sess)
    THEN Threw("tileJSONUrl", NoActiveSession)
    ELSE [Returned("tileJSONUrl") EXCEPT !.url = tileJSONUrlString(sess, key)]

\* tileUrl(z, x, y, orientation = 0)
tileUrl(sess, key, z, x, y, omitted, orientation) ==
    IF ~HasSession(sess)
    THEN Threw("tileUrl", NoActiveSession)
    ELSE [Returned("tileUrl") EXCEPT
            !.url = tileUrlString(sess, key, z, x, y,
                                  IF omitted THEN 0 ELSE orientation)]

----------------------------------------------------------------------------
(* The map toolkit, as the Source Manager uses it *)

SOURCE_NAME == "google-map-tiles"
LAYER_NAME == "google-map-tiles"

MapLibreAttribution == "<a href=\"https://maplibre.org/\" target=\"_blank\">MapLibre</a>"

\* controls: the map's own attribution control, another control of the page,
\* the manager's attribution control, and Google logo controls
DefaultAttributionControl ==
    [kind |-> "attribution", id |-> "default", custom |-> MapLibreAttribution]
OtherControl == [kind |-> "other", id |-> "nav", custom |-> Undefined]
ManagerAttributionControl == [kind |-> "attribution", id |-> "manager", custom |-> Undefined]
GoogleLogoControl(n) == [kind |-> "logo", id |-> "logo" \o ToString(n), custom |-> Undefined]

\* control lists a map starts with
InitialControls ==
    { <<>>, <<DefaultAttributionControl>>, <<DefaultAttributionControl, OtherControl>> }

RemoveAt(s, i) == SubSeq(s, 1, i - 1) \o SubSeq(s, i + 1, Len(s))

\* Array.prototype.indexOf, 1-based; 0 when absent
IndexOf(s, c) ==
    IF \E i \in 1..Len(s) : s[i] = c
    THEN CHOOSE i \in 1..Len(s) : s[i] = c /\ \A j \in 1..(i - 1) : s[j] # c
    ELSE 0

\* the list part of Map.removeControl: splice the control out when it is there
SpliceControl(ctrls, c) ==
    IF IndexOf(ctrls, c) > 0 THEN RemoveAt(ctrls, IndexOf(ctrls, c)) ELSE ctrls

\* control instanceof GoogleLogoControl
IsGoogleLogoControl(c) == c.kind = "logo"

\* control instanceof AttributionControl && isDefaultAttributionControl(control)
isDefaultAttributionControl(c, managerText) ==
    /\ c.kind = "attribution"
    /\ (IF c = ManagerAttributionControl THEN managerText ELSE c.custom)
            = MapLibreAttribution

\* for (const control of map._controls) if logo then map.removeControl(control):
\* the iteration index advances over the list as the removals shrink it
RECURSIVE RemoveLogoControls(_, _)
RemoveLogoControls(ctrls, i) ==
    IF i > Len(ctrls) THEN ctrls
    ELSE IF IsGoogleLogoControl(ctrls[i])
         THEN RemoveLogoControls(SpliceControl(ctrls, ctrls[i]), i + 1)
         ELSE RemoveLogoControls(ctrls, i + 1)

\* map._controls.forEach(...) of setupAttribution, removing default attribution
\* controls while iterating
RECURSIVE RemoveDefaultAttribution(_, _, _)
RemoveDefaultAttribution(ctrls, i, managerText) ==
    IF i > Len(ctrls) THEN ctrls
    ELSE IF isDefaultAttributionControl(ctrls[i], managerText)
         THEN RemoveDefaultAttribution(SpliceControl(ctrls, ctrls[i]), i + 1, managerText)
         ELSE RemoveDefaultAttribution(ctrls, i + 1, managerText)

HasSource(srcs, id) == \E s \in srcs : s.id = id
HasLayer(lyrs, id) == \E i \in 1..Len(lyrs) : lyrs[i].id = id

RECURSIVE WithoutLayer(_, _)
WithoutLayer(lyrs, id) ==
    IF lyrs = <<>> THEN <<>>
    ELSE IF Head(lyrs).id = id THEN WithoutLayer(Tail(lyrs), id)
         ELSE <<Head(lyrs)>> \o WithoutLayer(Tail(lyrs), id)

\* the map as a record, so that an operation can be computed step by step
MapState ==
    [sources |-> sources, layers |-> layers, controls |-> controls,
     handlers |-> handlers, logosCreated |-> logosCreated,
     attrAttached |-> attrAttached, error |-> ""]

----------------------------------------------------------------------------
(* Source Manager: addToMap and removeFromMap, step by step *)

\* addSource replacing a source already registered under the id instead of
\* raising (faulty variant)
addSourceReplacing(m, id, descriptor) ==
    [m EXCEPT !.sources = { s \in @ : s.id # id }
                            \cup { [id |-> id, type |-> descriptor.type,
                                     tiles |-> descriptor.tiles,
                                     tileSize |-> descriptor.tileSize] }]

\* map.addSource(id, descriptor) (maplibre-gl): throws on an id already
\* registered
addSource(m, id, descriptor) ==
    IF HasSource(m.sources, id)
    THEN [m EXCEPT !.error = SourceExists(id)]
    ELSE [m EXCEPT !.sources = @ \cup { [id |-> id, type |-> descriptor.type,
                                          tiles |-> descriptor.tiles,
                                          tileSize |-> descriptor.tileSize] }]

\* map.addLayer(layer) (maplibre-gl): a layer whose id is taken, or whose
\* source is not registered, fails validation; the map fires an error event
\* and does not add it
addLayer(m, layer) ==
    IF HasLayer(m.layers, layer.id) \/ ~HasSource(m.sources, layer.source)
    THEN m
    ELSE [m EXCEPT !.layers = Append(@, layer)]

\* the source descriptor and the layer of addSourceAndLayer
SourceDescriptor(url) == [type |-> "raster", tiles |-> <<url>>, tileSize |-> 256]
TilesLayer == [id |-> LAYER_NAME, source |-> SOURCE_NAME, type |-> "raster"]

\* addSourceAndLayer adding the layer before the source it references
\* (faulty variant)
addLayerAndSource(m, sess, key) ==
    IF Failed(tileJSONUrl(sess, key))
    THEN [m EXCEPT !.error = tileJSONUrl(sess, key).error]
    ELSE addSource(addLayer(m, TilesLayer), SOURCE_NAME,
                   SourceDescriptor(tileJSONUrl(sess, key).url))

\* addSourceAndLayer: the tileUrl getter runs first and throws without a
\* session; then addSource, which throws on a source id already registered,
\* then addLayer
addSourceAndLayer(m, sess, key) ==
    IF Failed(tileJSONUrl(sess, key))
    THEN [m EXCEPT !.error = tileJSONUrl(sess, key).error]
    ELSE LET m1 == addSource(m, SOURCE_NAME,
                             SourceDescriptor(tileJSONUrl(sess, key).url))
         IN  IF m1.error # "" THEN m1 ELSE addLayer(m1, TilesLayer)

\* setupAttribution: drop default attribution controls, add the manager's
\* control (its onAdd attaches it), subscribe to "sourcedata"
setupAttribution(m, managerText) ==
    [m EXCEPT
        !.controls = Append(RemoveDefaultAttribution(@, 1, managerText),
                            ManagerAttributionControl),
        !.attrAttached = TRUE,
        !.handlers = @ + 1]

\* addGoogleLogo: a new GoogleLogoControl is added to the map
addGoogleLogo(m) ==
    [m EXCEPT
        !.logosCreated = @ + 1,
        !.controls = Append(@, GoogleLogoControl(m.logosCreated + 1))]

\* addToMap setting up the attribution and the logo before the source and
\* the layer (faulty variant)
addToMapControlsFirst(m, sess, key, managerText) ==
    addSourceAndLayer(addGoogleLogo(setupAttribution(m, managerText)), sess, key)

\* addToMap(map)
addToMap(m, sess, key, managerText) ==
    IF addSourceAndLayer(m, sess, key).error # ""
    THEN addSourceAndLayer(m, sess, key)
    ELSE addGoogleLogo(setupAttribution(addSourceAndLayer(m, sess, key), managerText))

\* removeFromMap removing the layer but leaving the source registered
\* (faulty variant)
removeFromMapKeepsSource(m) ==
    LET m1 == [m EXCEPT
                 !.layers = IF HasLayer(@, LAYER_NAME)
                            THEN WithoutLayer(@, LAYER_NAME) ELSE @]
        m3 == [m1 EXCEPT
                 !.controls = SpliceControl(@, ManagerAttributionControl)]
    IN  IF ~m.attrAttached
        THEN [m3 EXCEPT !.error = DetachedControl]
        ELSE [m3 EXCEPT !.attrAttached = FALSE,
                        !.controls = RemoveLogoControls(@, 1)]

\* removeFromMap(map): layer and source are removed when present; the
\* attribution control is handed to map.removeControl unconditionally, which
\* splices it out when listed and then calls its onRemove, and onRemove of a
\* control that is on no map dereferences its unset _map; then the logo loop
removeFromMap(m) ==
    LET m1 == [m EXCEPT
                 !.layers = IF HasLayer(@, LAYER_NAME)
                            THEN WithoutLayer(@, LAYER_NAME) ELSE @]
        m2 == [m1 EXCEPT
                 !.sources = IF HasSource(@, SOURCE_NAME)
                             THEN { s \in @ : s.id # SOURCE_NAME } ELSE @]
        m3 == [m2 EXCEPT
                 !.controls = SpliceControl(@, ManagerAttributionControl)]
    IN  IF ~m.attrAttached
        THEN [m3 EXCEPT !.error = DetachedControl]
        ELSE [m3 EXCEPT !.attrAttached = FALSE,
                        !.controls = RemoveLogoControls(@, 1)]

----------------------------------------------------------------------------
(* Source Manager: attribution refresh *)

\* Math.round of a zoom kept in halves
MathRound(zoom2) == (zoom2 + 1) \div 2

\* the text is written and redrawn on every refresh (faulty variant)
CopyrightAlwaysDiffers(current, copyright) == TRUE

\* the test `customAttribution !== viewport.copyright`
CopyrightDiffers(current, copyright) == current # copyright

\* updateAttribution without the try/catch: the failure rejects its promise
\* (faulty variant)
Unhandled(msg) == Rejected("updateAttribution", msg)

\* what console.warn records in the catch block of updateAttribution: the
\* refresh still completes normally
Warned(msg) == [Resolved("updateAttribution") EXCEPT !.warned = TRUE, !.error = msg]

\* updateAttribution completed, in context ctx, with the viewport it fetched
Refreshed(r, ctx, viewport) == [r EXCEPT !.ctx = ctx, !.viewport = viewport]

\* the refresh r awaited the fetch request req
Answers(r, req) ==
    IF req.ctx = "event"
    THEN [r EXCEPT !.url = req.url, !.overtakenBy = req.overtakenBy,
                   !.onMap = req.onMap]
    ELSE r

\* the requests issued before req, once the response to req was applied:
\* refreshes started by earlier events are overtaken
RECURSIVE Overtaken(_, _, _)
Overtaken(earlier, req, outcome) ==
    IF earlier = <<>> THEN <<>>
    ELSE << IF req.ctx = "event" /\ Head(earlier).ctx = "event"
                  /\ outcome.type = "ok"
            THEN [Head(earlier) EXCEPT !.overtakenBy = req.url]
            ELSE Head(earlier) >> \o Overtaken(Tail(earlier), req, outcome)

\* getViewport failing with the message of createSession (faulty variant)
viewportFailureAsSession(outcome) ==
    IF outcome.type = "http" THEN SessionCreationFailed(outcome.statusText)
    ELSE FetchFailed

\* the failure of getViewport for a fetch that did not settle ok
viewportFailure(outcome) ==
    IF outcome.type = "http" THEN ViewportFetchFailed(outcome.statusText)
    ELSE FetchFailed

\* createSession failing without the status text (faulty variant)
sessionFailureNoStatus(outcome) ==
    IF outcome.type = "http" THEN "Error creating session" ELSE FetchFailed

\* the failure of createSession for a fetch that did not settle ok
sessionFailure(outcome) ==
    IF outcome.type = "http" THEN SessionCreationFailed(outcome.statusText)
    ELSE FetchFailed

\* requests in flight of the given contexts
InFlight(ctxs) == Cardinality({ i \in 1..Len(pending) : pending[i].ctx \in ctxs })

RECURSIVE Repeat(_, _)
Repeat(x, n) == IF n = 0 THEN <<>> ELSE <<x>> \o Repeat(x, n - 1)

----------------------------------------------------------------------------
(* Initial state: a map with its own controls, no manager yet *)

Init ==
    /\ apiKey = ""
    /\ session = Null
    /\ handle = FALSE
    /\ customAttribution = Undefined
    /\ attrAttached = FALSE
    /\ redraws = 0
    /\ sources = {}
    /\ layers = <<>>
    /\ controls \in InitialControls
    /\ handlers = 0
    /\ logosCreated = 0
    /\ pending = <<>>
    /\ result = NoResult
    /\ calls = 0
    /\ img = [c \in 1..MaxLogos |-> 0]
    /\ imgCreated = 0
    /\ imgInDom = {}
    /\ logoResult = [op |-> "none", control |-> 0, status |-> "returned"]

----------------------------------------------------------------------------
(* Calls on the Tile Client (reached through manager.client) *)

\* one more call by the page, or one more map event, within the bound
Call == calls < MaxCalls /\ calls' = calls + 1 /\ UNCHANGED logoVars

\* new GoogleMapTilesSource(apiKey)
Construct(key) ==
    /\ Call
    /\ ~handle
    /\ InFlight({"create", "addGoogleMapTiles"}) = 0
    /\ apiKey' = key
    /\ session' = Null
    /\ handle' = TRUE
    /\ result' = Returned("constructor")
    /\ UNCHANGED <<attrVars, mapVars, pending>>

\* client.createSession(request), up to `await fetch`
CreateSession(request) ==
    /\ Call
    /\ handle
    /\ pending' = Append(pending, createSessionRequest("client", apiKey, request))
    /\ UNCHANGED <<clientVars, handle, attrVars, mapVars, result>>

\* client.getViewport(zoom, north, south, east, west), up to `await fetch`
GetViewport(a) ==
    /\ Call
    /\ handle
    /\ IF ~HasSession(session)
       THEN /\ result' = Rejected("getViewport", NoActiveSession)
            /\ UNCHANGED pending
       ELSE /\ pending' = Append(pending,
                    viewportRequest("client", session, apiKey, a.zoom, a.north,
                                    a.south, a.east, a.west))
            /\ UNCHANGED result
    /\ UNCHANGED <<clientVars, handle, attrVars, mapVars>>

\* client.tileJSONUrl()
TileJSONUrl ==
    /\ Call
    /\ handle
    /\ result' = tileJSONUrl(session, apiKey)
    /\ UNCHANGED <<clientVars, handle, attrVars, mapVars, pending>>

\* client.tileUrl(z, x, y) and client.tileUrl(z, x, y, orientation)
TileUrl(t, omitted, orientation) ==
    /\ Call
    /\ handle
    /\ result' = tileUrl(session, apiKey, t[1], t[2], t[3], omitted, orientation)
    /\ UNCHANGED <<clientVars, handle, attrVars, mapVars, pending>>

----------------------------------------------------------------------------
(* Calls on the Source Manager *)

\* GoogleMapTilesSource.create(apiKey, options), up to `await fetch`; an
\* omitted options argument takes defaultSessionOptions
Create(key, options) ==
    /\ Call
    /\ ~handle
    /\ InFlight({"create", "addGoogleMapTiles"}) = 0
    /\ apiKey' = key
    /\ session' = Null
    /\ pending' = Append(pending,
            createSessionRequest("create", key,
                IF options = Null THEN defaultSessionOptions ELSE options))
    /\ UNCHANGED <<handle, attrVars, mapVars, result>>

\* the argument checks without the API key check (faulty variant)
addGoogleMapTilesCheckMapOnly(key, hasMap) ==
    IF ~hasMap THEN MissingMapInstance ELSE ""

\* the argument checks of addGoogleMapTiles: the error raised, "" for none
addGoogleMapTilesCheck(key, hasMap) ==
    IF key = "" THEN MissingApiKey
    ELSE IF ~hasMap THEN MissingMapInstance
    ELSE ""

\* how addGoogleMapTiles delivers an error raised in its body: it is declared
\* `async`, so the throw rejects the promise it returns
addGoogleMapTilesRaise(msg) == Rejected("addGoogleMapTiles", msg)

\* addGoogleMapTiles(apiKey, map, options), up to `await fetch`
AddGoogleMapTiles(key, hasMap, options) ==
    /\ Call
    /\ IF addGoogleMapTilesCheck(key, hasMap) # ""
       THEN /\ result' = addGoogleMapTilesRaise(addGoogleMapTilesCheck(key, hasMap))
            /\ UNCHANGED <<clientVars, handle, attrVars, mapVars, pending>>
       ELSE /\ ~handle
            /\ InFlight({"create", "addGoogleMapTiles"}) = 0
            /\ apiKey' = key
            /\ session' = Null
            /\ pending' = Append(pending,
                    createSessionRequest("addGoogleMapTiles", key,
                        IF options = Null THEN defaultSessionOptions ELSE options))
            /\ UNCHANGED <<handle, attrVars, mapVars, result>>

\* the map variables after a map operation left the map as m
SetMap(m) ==
    /\ sources' = m.sources
    /\ layers' = m.layers
    /\ controls' = m.controls
    /\ handlers' = m.handlers
    /\ logosCreated' = m.logosCreated
    /\ attrAttached' = m.attrAttached

\* manager.addToMap(map)
AddToMap ==
    /\ Call
    /\ handle
    /\ LET m == addToMap(MapState, session, apiKey, customAttribution)
       IN  /\ SetMap(m)
           /\ result' = IF m.error # "" THEN Threw("addToMap", m.error)
                         ELSE Returned("addToMap")
    /\ UNCHANGED <<clientVars, handle, customAttribution, redraws, pending>>

\* manager.removeFromMap(map)
RemoveFromMap ==
    /\ Call
    /\ handle
    /\ LET m == removeFromMap(MapState)
       IN  /\ SetMap(m)
           /\ result' = IF m.error # "" THEN Threw("removeFromMap", m.error)
                         ELSE Returned("removeFromMap")
    /\ UNCHANGED <<clientVars, handle, customAttribution, redraws, pending>>

\* addGoogleLogo(map), called by the page itself
AddGoogleLogo ==
    /\ Call
    /\ SetMap(addGoogleLogo(MapState))
    /\ result' = Returned("addGoogleLogo")
    /\ UNCHANGED <<clientVars, handle, customAttribution, redraws, pending>>

\* updateAttribution(bounds, zoom), up to `await fetch`, started n times in
\* context ctx: getViewport rejects without a session and the catch block
\* warns; otherwise each start issues one viewport request
StartRefresh(ctx, v, n) ==
    IF ~HasSession(session)
    THEN /\ result' = Refreshed(Warned(NoActiveSession), ctx, Null)
         /\ UNCHANGED pending
    ELSE /\ pending' = pending \o
                Repeat(viewportRequest(ctx, session, apiKey, MathRound(v.zoom2),
                                       v.north, v.south, v.east, v.west), n)
         /\ UNCHANGED result

\* manager.updateAttribution(bounds, zoom), called by the page itself
UpdateAttribution(v) ==
    /\ Call
    /\ handle
    /\ StartRefresh("call", v, 1)
    /\ UNCHANGED <<clientVars, handle, attrVars, mapVars>>

\* the map fires "sourcedata": every handler registered by setupAttribution
\* runs, and starts a refresh when the event says the source is loaded
SourceData(v, isSourceLoaded) ==
    /\ Call
    /\ handlers > 0
    /\ IF isSourceLoaded
       THEN StartRefresh("event", v, handlers)
       ELSE UNCHANGED <<pending, result>>
    /\ UNCHANGED <<clientVars, handle, attrVars, mapVars>>

----------------------------------------------------------------------------
(* A fetch settles and the call awaiting it runs on *)

\* createSession returning the parsed body without storing it (faulty variant)
createSessionNotStored(op, outcome) ==
    IF ~ResponseOk(outcome)
    THEN [stored |-> session, result |-> Rejected(op, sessionFailure(outcome))]
    ELSE [stored |-> session,
          result |-> [Resolved(op) EXCEPT !.session = outcome.body]]

\* createSession clearing the stored session when the request fails (faulty
\* variant)
createSessionClearsOnFailure(op, outcome) ==
    IF ~ResponseOk(outcome)
    THEN [stored |-> Null, result |-> Rejected(op, sessionFailure(outcome))]
    ELSE [stored |-> outcome.body,
          result |-> [Resolved(op) EXCEPT !.session = outcome.body]]

\* createSession merging the response into the session already stored, which
\* keeps the expiry of the prior session (faulty variant)
createSessionMerged(op, outcome) ==
    IF ~ResponseOk(outcome)
    THEN [stored |-> session, result |-> Rejected(op, sessionFailure(outcome))]
    ELSE [stored |-> IF session = Null THEN outcome.body
                     ELSE [outcome.body EXCEPT !.expiry = session.expiry],
          result |-> [Resolved(op) EXCEPT !.session = outcome.body]]

\* createSession after `await fetch`: a response that is not ok, or a fetch
\* that failed, rejects and stores nothing; otherwise the parsed body is
\* stored in this.session and returned
createSessionSettled(op, outcome) ==
    IF ~ResponseOk(outcome)
    THEN [stored |-> session, result |-> Rejected(op, sessionFailure(outcome))]
    ELSE [stored |-> outcome.body,
          result |-> [Resolved(op) EXCEPT !.session = outcome.body]]

\* getViewport returning the copyright and dropping the zoom rectangles
\* (faulty variant)
getViewportCopyrightOnly(outcome) ==
    IF ~ResponseOk(outcome)
    THEN Rejected("getViewport", viewportFailure(outcome))
    ELSE [Resolved("getViewport") EXCEPT
            !.viewport = [outcome.body EXCEPT !.maxZoomRects = <<>>]]

\* getViewport after `await fetch`
getViewportSettled(outcome) ==
    IF ~ResponseOk(outcome)
    THEN Rejected("getViewport", viewportFailure(outcome))
    ELSE [Resolved("getViewport") EXCEPT !.viewport = outcome.body]

\* client.createSession(...) settles
SettleCreateSession(outcome) ==
    /\ session' = createSessionSettled("createSession", outcome).stored
    /\ result' = createSessionSettled("createSession", outcome).result
    /\ UNCHANGED <<apiKey, handle, attrVars, mapVars>>

\* create returning the manager although createSession rejected (faulty
\* variant)
SettleCreateReturnsManager(outcome) ==
    /\ session' = createSessionSettled("create", outcome).stored
    /\ result' = Resolved("create")
    /\ handle' = TRUE
    /\ UNCHANGED <<apiKey, attrVars, mapVars>>

\* GoogleMapTilesSource.create(...) settles: the manager is returned only
\* when createSession did not reject
SettleCreate(outcome) ==
    /\ session' = createSessionSettled("create", outcome).stored
    /\ result' = [createSessionSettled("create", outcome).result
                      EXCEPT !.session = Null]
    /\ handle' = ~Failed(createSessionSettled("create", outcome).result)
    /\ UNCHANGED <<apiKey, attrVars, mapVars>>

\* addGoogleMapTiles(...) settles: after create, addToMap(map) and return
SettleAddGoogleMapTiles(outcome) ==
    LET c == createSessionSettled("addGoogleMapTiles", outcome)
        m == addToMap(MapState, c.stored, apiKey, customAttribution)
    IN  /\ session' = c.stored
        /\ IF Failed(c.result)
           THEN /\ result' = c.result
                /\ UNCHANGED <<handle, mapVars, attrAttached>>
           ELSE /\ SetMap(m)
                /\ handle' = (m.error = "")
                /\ result' = IF m.error # ""
                              THEN Rejected("addGoogleMapTiles", m.error)
                              ELSE Resolved("addGoogleMapTiles")
        /\ UNCHANGED <<apiKey, customAttribution, redraws>>

\* client.getViewport(...) settles
SettleGetViewport(outcome) ==
    /\ result' = getViewportSettled(outcome)
    /\ UNCHANGED <<clientVars, handle, attrVars, mapVars>>

\* updateAttribution ignoring a response when a refresh started later has
\* already completed (faulty variant: the code keeps no such order)
SettleUpdateAttributionLatestOnly(req, outcome) ==
    LET v == getViewportSettled(outcome)
        stale == req.overtakenBy # ""
    IN  /\ IF Failed(v)
           THEN /\ result' = Answers(Refreshed(Warned(v.error), req.ctx, Null), req)
                /\ UNCHANGED <<customAttribution, redraws>>
           ELSE IF ~stale /\ CopyrightDiffers(customAttribution, v.viewport.copyright)
           THEN /\ customAttribution' = v.viewport.copyright
                /\ redraws' = redraws + 1
                /\ result' = Answers(Refreshed(IF attrAttached
                                                THEN Resolved("updateAttribution")
                                                ELSE Warned(DetachedControl),
                                                req.ctx, v.viewport), req)
           ELSE /\ result' = Answers(Refreshed(Resolved("updateAttribution"),
                                                req.ctx, v.viewport), req)
                /\ UNCHANGED <<customAttribution, redraws>>
        /\ UNCHANGED <<clientVars, handle, attrAttached, mapVars>>

\* updateAttribution dropping the response once the manager was removed from
\* the map (faulty variant: the code cancels nothing)
SettleUpdateAttributionIfAttached(req, outcome) ==
    LET v == getViewportSettled(outcome)
    IN  /\ IF Failed(v)
           THEN /\ result' = Answers(Refreshed(Warned(v.error), req.ctx, Null), req)
                /\ UNCHANGED <<customAttribution, redraws>>
           ELSE IF attrAttached
                   /\ CopyrightDiffers(customAttribution, v.viewport.copyright)
           THEN /\ customAttribution' = v.viewport.copyright
                /\ redraws' = redraws + 1
                /\ result' = Answers(Refreshed(Resolved("updateAttribution"),
                                                req.ctx, v.viewport), req)
           ELSE /\ result' = Answers(Refreshed(Resolved("updateAttribution"),
                                                req.ctx, v.viewport), req)
                /\ UNCHANGED <<customAttribution, redraws>>
        /\ UNCHANGED <<clientVars, handle, attrAttached, mapVars>>

\* updateAttribution settles, its fetch request being req: a failure of
\* getViewport is caught and warned; otherwise the text is written and
\* redrawn only when the copyright differs.  _updateAttributions() of a
\* control that is on no map raises inside the try block, after the text was
\* written, and is caught as well
SettleUpdateAttribution(req, outcome) ==
    LET v == getViewportSettled(outcome)
    IN  /\ IF Failed(v)
           THEN /\ result' = Answers(Refreshed(Warned(v.error), req.ctx, Null), req)
                /\ UNCHANGED <<customAttribution, redraws>>
           ELSE IF CopyrightDiffers(customAttribution, v.viewport.copyright)
           THEN /\ customAttribution' = v.viewport.copyright
                /\ redraws' = redraws + 1
                /\ result' = Answers(Refreshed(IF attrAttached
                                                THEN Resolved("updateAttribution")
                                                ELSE Warned(DetachedControl),
                                                req.ctx, v.viewport), req)
           ELSE /\ result' = Answers(Refreshed(Resolved("updateAttribution"),
                                                req.ctx, v.viewport), req)
                /\ UNCHANGED <<customAttribution, redraws>>
        /\ UNCHANGED <<clientVars, handle, attrAttached, mapVars>>

\* the i-th request in flight settles with outcome
FetchSettles(i, outcome) ==
    /\ UNCHANGED <<calls, logoVars>>
    /\ pending' = Overtaken(SubSeq(pending, 1, i - 1), pending[i], outcome)
                      \o SubSeq(pending, i + 1, Len(pending))
    /\ CASE pending[i].ctx = "client" /\ pending[i].kind = "createSession" ->
                SettleCreateSession(outcome)
         [] pending[i].ctx = "client" /\ pending[i].kind = "viewport" ->
                SettleGetViewport(outcome)
         [] pending[i].ctx = "create" -> SettleCreate(outcome)
         [] pending[i].ctx = "addGoogleMapTiles" -> SettleAddGoogleMapTiles(outcome)
         [] pending[i].ctx \in {"event", "call"} ->
                SettleUpdateAttribution(pending[i], outcome)

\* some request in flight settles, in some way
Settle ==
    \E i \in 1..Len(pending) :
        \E outcome \in Outcomes(pending[i].kind) : FetchSettles(i, outcome)

----------------------------------------------------------------------------

Next ==
    \/ \E key \in Keys : Construct(key)
    \/ \E request \in OptionArgs \ {Null} : CreateSession(request)
    \/ \E a \in ViewportArgs : GetViewport(a)
    \/ TileJSONUrl
    \/ \E t \in TileArgs, omitted \in BOOLEAN, o \in OrientationArgs :
            TileUrl(t, omitted, o)
    \/ \E key \in Keys, options \in OptionArgs : Create(key, options)
    \/ \E key \in KeyArgs, hasMap \in BOOLEAN, options \in OptionArgs :
            AddGoogleMapTiles(key, hasMap, options)
    \/ AddToMap
    \/ RemoveFromMap
    \/ AddGoogleLogo
    \/ \E v \in Views : UpdateAttribution(v)
    \/ \E v \in Views, isSourceLoaded \in BOOLEAN : SourceData(v, isSourceLoaded)
    \/ Settle

Spec == Init /\ [][Next]_vars

----------------------------------------------------------------------------
(* The logo control of src/logo_control.ts, exercised on its own: onAdd and *)
(* onRemove called on MaxLogos controls in any order.                       *)

\* the logo controls and the document as a record
LogoState ==
    [img |-> img, created |-> imgCreated, inDom |-> imgInDom, error |-> ""]

\* onAdd(map): this.img = document.createElement("img"); return this.img.
\* The caller (map.addControl) inserts the returned element when attach
onAdd(l, c, attach) ==
    [l EXCEPT !.created = @ + 1,
              !.img[c] = l.created + 1,
              !.inDom = IF attach THEN @ \cup {l.created + 1} ELSE @]

\* onRemove calling remove() on the element unconditionally and keeping the
\* reference, as the variant of src/unnamed/part_001 does (faulty variant)
onRemoveUnconditional(l, c) ==
    IF l.img[c] = 0
    THEN [l EXCEPT !.error = DetachedControl]
    ELSE [l EXCEPT !.inDom = @ \ {l.img[c]}]

\* onRemove(map): if (this.img) { this.img.remove(); this.img = undefined }
onRemove(l, c) ==
    IF l.img[c] # 0
    THEN [l EXCEPT !.inDom = @ \ {l.img[c]}, !.img[c] = 0]
    ELSE l

\* the logo variables after an operation left the controls as l
SetLogo(l, op, c) ==
    /\ img' = l.img
    /\ imgCreated' = l.created
    /\ imgInDom' = l.inDom
    /\ logoResult' = [op |-> op, control |-> c,
                      status |-> IF l.error # "" THEN "threw" ELSE "returned"]

\* one more call on a logo control, within the bound
LogoCall ==
    /\ calls < MaxCalls /\ calls' = calls + 1
    /\ UNCHANGED <<clientVars, handle, attrVars, mapVars, pending, result>>

\* control.onAdd(map), by map.addControl (attach) or called directly
LogoOnAdd(c, attach) ==
    /\ LogoCall
    /\ SetLogo(onAdd(LogoState, c, attach), "onAdd", c)

\* control.onRemove(map)
LogoOnRemove(c) ==
    /\ LogoCall
    /\ SetLogo(onRemove(LogoState, c), "onRemove", c)

LogoNext ==
    \/ \E c \in 1..MaxLogos, attach \in BOOLEAN : LogoOnAdd(c, attach)
    \/ \E c \in 1..MaxLogos : LogoOnRemove(c)

LogoSpec == Init /\ [][LogoNext]_vars

----------------------------------------------------------------------------
(* Properties *)

\* the i-th request in flight is of one of the kinds/contexts and settles so
SettlesAs(i, outcome, kind, ctxs, types) ==
    /\ pending[i].kind = kind
    /\ pending[i].ctx \in ctxs
    /\ outcome.type \in types
    /\ FetchSettles(i, outcome)

\* C1: while the client's session is null, every call to getViewport,
\* tileJSONUrl or tileUrl fails with the no-active-session error and issues no
\* request; and the session leaves null only when a create-session request
\* settles with a success response.
C1_NoSessionCallsFail ==
    [][ /\ \A a \in ViewportArgs :
              (session = Null /\ GetViewport(a)) =>
                  /\ Failed(result') /\ result'.op = "getViewport"
                  /\ result'.error = NoActiveSession
                  /\ pending' = pending
        /\ (session = Null /\ TileJSONUrl) =>
                  /\ Failed(result') /\ result'.op = "tileJSONUrl"
                  /\ result'.error = NoActiveSession
                  /\ pending' = pending
        /\ \A t \in TileArgs, omitted \in BOOLEAN, o \in OrientationArgs :
              (session = Null /\ TileUrl(t, omitted, o)) =>
                  /\ Failed(result') /\ result'.op = "tileUrl"
                  /\ result'.error = NoActiveSession
                  /\ pending' = pending
        /\ (session = Null /\ session' # Null) =>
              \E i \in 1..Len(pending) : \E outcome \in Outcomes("createSession") :
                  SettlesAs(i, outcome, "createSession",
                            {"client", "create", "addGoogleMapTiles"}, {"ok"})
      ]_vars

\* C1 witness: a guarded call has failed on a client whose session is still
\* null after three calls
C1_Witness ==
    /\ session = Null /\ handle /\ calls >= 3 /\ pending = <<>>
    /\ result.op = "getViewport" /\ result.status = "rejected"
    /\ result.error = NoActiveSession

\* C2: when a create-session request settles with a success response, the
\* body is stored as the client's session, and client.createSession resolves
\* with that same body, whatever options were sent.
C2_CreateSessionStoresAndReturns ==
    [][ \A i \in 1..Len(pending) : \A outcome \in Outcomes("createSession") :
          /\ SettlesAs(i, outcome, "createSession",
                       {"client", "create", "addGoogleMapTiles"}, {"ok"})
                => session' = outcome.body
          /\ SettlesAs(i, outcome, "createSession", {"client"}, {"ok"})
                => /\ result'.op = "createSession"
                   /\ result'.status = "resolved"
                   /\ result'.session = outcome.body
                   /\ result'.session = session'
      ]_vars

\* C2 witness: createSession resolved with the session now stored
C2_Witness ==
    /\ result.op = "createSession" /\ result.status = "resolved"
    /\ result.session \in SessionBodies /\ result.session = session

\* C3: when the create-session request settles with a non-success status,
\* createSession rejects with "Error creating session: " followed by the
\* status text and returns no session.
C3_CreateSessionHttpFailure ==
    [][ \A i \in 1..Len(pending) : \A outcome \in Outcomes("createSession") :
          SettlesAs(i, outcome, "createSession", {"client"}, {"http"})
            => /\ result'.op = "createSession"
               /\ result'.status = "rejected"
               /\ Includes(result'.error, "Error creating session")
               /\ result'.error = "Error creating session: " \o outcome.statusText
               /\ result'.session = Null
      ]_vars

\* C3 witness: createSession rejected with the status text "Forbidden"
C3_Witness ==
    /\ result.op = "createSession" /\ result.status = "rejected"
    /\ result.error = "Error creating session: Forbidden"

\* C4: with an active session, when the viewport request settles with a
\* non-success status, getViewport rejects with a message containing "Error
\* fetching viewport" and the session is unchanged.
C4_GetViewportHttpFailure ==
    [][ \A i \in 1..Len(pending) : \A outcome \in Outcomes("viewport") :
          SettlesAs(i, outcome, "viewport", {"client"}, {"http"})
            => /\ result'.op = "getViewport"
               /\ result'.status = "rejected"
               /\ Includes(result'.error, "Error fetching viewport")
               /\ result'.viewport = Null
               /\ session # Null
               /\ session' = session
      ]_vars

\* C4 witness: getViewport rejected on a client that holds a session
C4_Witness ==
    /\ result.op = "getViewport" /\ result.status = "rejected"
    /\ Includes(result.error, "Error fetching viewport")
    /\ session \in SessionBodies

\* C5: with an active session, when the viewport request settles with a
\* success status, getViewport resolves with the response body unchanged.
C5_GetViewportReturnsBody ==
    [][ \A i \in 1..Len(pending) : \A outcome \in Outcomes("viewport") :
          SettlesAs(i, outcome, "viewport", {"client"}, {"ok"})
            => /\ result'.op = "getViewport"
               /\ result'.status = "resolved"
               /\ result'.viewport = outcome.body
               /\ result'.viewport.copyright = outcome.body.copyright
               /\ result'.viewport.maxZoomRects = outcome.body.maxZoomRects
      ]_vars

\* C5 witness: getViewport resolved with a body of two zoom rectangles
C5_Witness ==
    /\ result.op = "getViewport" /\ result.status = "resolved"
    /\ result.viewport \in ViewportBodies
    /\ Len(result.viewport.maxZoomRects) = 2

\* C6: with an active session, tileUrl(z, x, y[, orientation]) returns a URL
\* embedding /z/x/y, session=<token of the stored session>, key=<the client's
\* key> and orientation=<the argument, 0 when omitted>.
C6_TileUrlEmbeds ==
    [][ \A t \in TileArgs, omitted \in BOOLEAN, o \in OrientationArgs :
          (session # Null /\ TileUrl(t, omitted, o))
            => /\ result'.op = "tileUrl"
               /\ result'.status = "returned"
               /\ Includes(result'.url, "/" \o ToString(t[1]) \o "/"
                                \o ToString(t[2]) \o "/" \o ToString(t[3]))
               /\ Includes(result'.url, "session=" \o session.session)
               /\ Includes(result'.url, "key=" \o apiKey)
               /\ Includes(result'.url, "orientation="
                                \o ToString(IF omitted THEN 0 ELSE o))
      ]_vars

\* C6 witness: the URL of the test, for a default orientation
C6_Witness ==
    /\ result.op = "tileUrl" /\ result.status = "returned"
    /\ Includes(result.url, "key=test-api-key")
    /\ Includes(result.url, "session=mock-session-token")
    /\ Includes(result.url, "/15/6294/13288")
    /\ Includes(result.url, "orientation=0")

\* C7 (as claimed): removeFromMap on a map to which this manager never added
\* anything does not raise and leaves sources, layers and controls unchanged.
C7_RemoveFromMapNeverAdded ==
    [][ (handlers = 0 /\ RemoveFromMap)
          => /\ result'.op = "removeFromMap"
             /\ result'.status = "returned"
             /\ UNCHANGED <<sources, layers, controls>>
      ]_vars

\* C8: when a refresh fetched a copyright equal to the control's text, the
\* text is not written and redraw is not called; when it differs, the text
\* becomes the copyright and redraw is called once.  A refresh that completes
\* right after one that fetched the same copyright calls no redraw.
C8_RedrawOnlyOnChange ==
    [][ \A i \in 1..Len(pending) : \A outcome \in Outcomes("viewport") :
          SettlesAs(i, outcome, "viewport", {"event", "call"}, {"ok"})
            => /\ customAttribution = outcome.body.copyright
                    => (customAttribution' = customAttribution /\ redraws' = redraws)
               /\ customAttribution # outcome.body.copyright
                    => /\ customAttribution' = outcome.body.copyright
                       /\ redraws' = redraws + 1
               /\ ( /\ result.op = "updateAttribution"
                     /\ result.viewport # Null
                     /\ result.viewport.copyright = outcome.body.copyright )
                    => redraws' = redraws
      ]_vars

\* C8 witness: two refreshes started by map events have completed, the later
\* with the copyright shown, and redraw was called once
C8_Witness ==
    /\ handlers = 1 /\ calls = 3 /\ pending = <<>> /\ redraws = 1
    /\ result.op = "updateAttribution" /\ result.ctx = "event" /\ ~result.warned
    /\ result.overtakenBy # ""
    /\ result.viewport # Null
    /\ result.viewport.copyright = customAttribution

\* C9: when getViewport fails during an attribution refresh (no session, a
\* non-success status or a transport failure), the refresh still completes
\* normally, the control's text is unchanged and redraw is not called.
C9_RefreshFailureSwallowed ==
    [][ /\ \A i \in 1..Len(pending) : \A outcome \in Outcomes("viewport") :
              SettlesAs(i, outcome, "viewport", {"event", "call"}, {"http", "reject"})
                => /\ result'.op = "updateAttribution"
                   /\ result'.status = "resolved"
                   /\ result'.warned
                   /\ UNCHANGED <<customAttribution, redraws>>
        /\ \A v \in Views :
              (session = Null /\ UpdateAttribution(v))
                => /\ result'.op = "updateAttribution"
                   /\ result'.status = "resolved"
                   /\ result'.warned
                   /\ UNCHANGED <<customAttribution, redraws, pending>>
      ]_vars

\* C9 witness: a refresh started by a map event completed normally after the
\* viewport request failed, with the text it had before
C9_Witness ==
    /\ result.op = "updateAttribution" /\ result.ctx = "event"
    /\ result.status = "resolved" /\ result.warned
    /\ Includes(result.error, "Error fetching viewport")
    /\ customAttribution = "Mock Copyright 2025" /\ redraws = 1

\* what C10 requires besides the way the error is delivered: the matching
\* error, no request issued, nothing registered on the map, no manager
C10_FailsBeforeAnyEffect(key, hasMap) ==
    /\ result'.op = "addGoogleMapTiles"
    /\ key = "" => result'.error = MissingApiKey
    /\ (key # "" /\ ~hasMap) => result'.error = MissingMapInstance
    /\ UNCHANGED <<pending, mapVars, attrVars, clientVars, handle>>

\* C10 (as claimed): addGoogleMapTiles with an empty key or without a map
\* raises the matching error synchronously, issues no request and registers
\* nothing.
C10_RaisedSynchronously ==
    [][ \A key \in KeyArgs, hasMap \in BOOLEAN, options \in OptionArgs :
          ((key = "" \/ ~hasMap) /\ AddGoogleMapTiles(key, hasMap, options))
            => (result'.status = "threw" /\ C10_FailsBeforeAnyEffect(key, hasMap))
      ]_vars

\* C10 (amended): addGoogleMapTiles with an empty key or without a map rejects
\* the promise it returns with the matching error, before any await: no
\* request is issued and nothing is registered.
C10_RejectedBeforeAnyEffect ==
    [][ \A key \in KeyArgs, hasMap \in BOOLEAN, options \in OptionArgs :
          ((key = "" \/ ~hasMap) /\ AddGoogleMapTiles(key, hasMap, options))
            => (result'.status = "rejected" /\ C10_FailsBeforeAnyEffect(key, hasMap))
      ]_vars

\* C10 witness: the call was rejected for the missing map while a manager is
\* on the map
C10_Witness ==
    /\ result.op = "addGoogleMapTiles" /\ result.status = "rejected"
    /\ result.error = MissingMapInstance
    /\ handlers = 1 /\ HasSource(sources, SOURCE_NAME)

\* no control of the manager (its attribution control, a logo) is on the map
NoManagerControls(ctrls) ==
    \A k \in 1..Len(ctrls) :
        ctrls[k] # ManagerAttributionControl /\ ~IsGoogleLogoControl(ctrls[k])

\* C11: when session creation fails inside GoogleMapTilesSource.create, and so
\* inside addGoogleMapTiles, the failure reaches the caller as the rejection,
\* no manager is returned, and no source, layer, attribution control, logo
\* control or event handler is registered on the map.
C11_CreateFailurePropagated ==
    [][ \A i \in 1..Len(pending) : \A outcome \in Outcomes("createSession") :
          SettlesAs(i, outcome, "createSession", {"create", "addGoogleMapTiles"},
                    {"http", "reject"})
            => /\ result'.op = pending[i].ctx
               /\ result'.status = "rejected"
               /\ result'.error = sessionFailure(outcome)
               /\ ~handle'
               /\ UNCHANGED <<mapVars, attrVars, session>>
      ]_vars

\* C11 witness: addGoogleMapTiles was rejected with the session-creation
\* error and the map holds nothing of the manager
C11_Witness ==
    /\ result.op = "addGoogleMapTiles" /\ result.status = "rejected"
    /\ Includes(result.error, "Error creating session")
    /\ ~handle /\ session = Null
    /\ sources = {} /\ layers = <<>> /\ handlers = 0 /\ logosCreated = 0
    /\ NoManagerControls(controls)

\* the Google logo controls in a list of controls
LogoControls(ctrls) == { k \in 1..Len(ctrls) : IsGoogleLogoControl(ctrls[k]) }

\* nothing of a manager is registered on the map
NothingRegistered ==
    /\ sources = {} /\ layers = <<>> /\ handlers = 0
    /\ NoManagerControls(controls)

\* C12: after addToMap on a manager with an active session and a map with no
\* prior registration, the map holds exactly the raster source
\* "google-map-tiles" with tile size 256 whose tile template is the client's
\* TileJSON URL, the raster layer "google-map-tiles" referencing that source
\* (added, so its source was registered before it), the manager's attribution
\* control, and one logo control.
C12_AddToMapRegisters ==
    [][ (session # Null /\ NothingRegistered /\ AddToMap)
          => /\ result'.op = "addToMap" /\ result'.status = "returned"
             /\ sources' = { [id |-> "google-map-tiles", type |-> "raster",
                              tiles |-> <<tileJSONUrlString(session, apiKey)>>,
                              tileSize |-> 256] }
             /\ layers' = << [id |-> "google-map-tiles", type |-> "raster",
                              source |-> "google-map-tiles"] >>
             /\ \E k \in 1..Len(controls') : controls'[k] = ManagerAttributionControl
             /\ attrAttached'
             /\ Cardinality(LogoControls(controls')) = 1
      ]_vars

\* C12 witness: addToMap returned on a manager made by create, and the map
\* holds the source, the layer, the attribution control and one logo
C12_Witness ==
    /\ result.op = "addToMap" /\ result.status = "returned"
    /\ session # Null /\ HasSource(sources, SOURCE_NAME)
    /\ HasLayer(layers, LAYER_NAME) /\ attrAttached /\ handlers = 1
    /\ Cardinality(LogoControls(controls)) = 1

\* C13: the life cycle is re-enterable.  With a session, addToMap on a map
\* that does not hold the manager's source returns without a
\* duplicate-registration error and leaves the manager on the map;
\* removeFromMap of a manager that is on the map returns and leaves the map
\* without the source and the layer, so that the next addToMap succeeds
\* again; and neither operation changes or clears the client's session.
C13_LifeCycleReenterable ==
    [][ /\ (session # Null /\ ~HasSource(sources, SOURCE_NAME) /\ AddToMap)
              => /\ result'.op = "addToMap" /\ result'.status = "returned"
                 /\ session' = session
                 /\ HasSource(sources', SOURCE_NAME) /\ attrAttached'
        /\ (attrAttached /\ RemoveFromMap)
              => /\ result'.op = "removeFromMap" /\ result'.status = "returned"
                 /\ session' = session
                 /\ ~HasSource(sources', SOURCE_NAME)
                 /\ ~HasLayer(layers', LAYER_NAME)
                 /\ ~attrAttached'
        /\ (AddToMap \/ RemoveFromMap) => session' = session
      ]_vars

\* C13 witness: addToMap returned for the second time on the same map, which
\* takes a removeFromMap between the two
C13_Witness ==
    /\ result.op = "addToMap" /\ result.status = "returned"
    /\ handlers = 2 /\ session # Null
    /\ HasSource(sources, SOURCE_NAME) /\ HasLayer(layers, LAYER_NAME)

\* C14: the client holds at most one session at any time (null or exactly one
\* response body, never a mixture of two), and a successful createSession
\* made while a session is stored replaces it wholesale: every field of the
\* stored session is the field of the new response, none is carried over.
C14_SessionReplacedWholesale ==
    /\ [](session = Null \/ session \in SessionBodies)
    /\ [][ \A i \in 1..Len(pending) : \A outcome \in Outcomes("createSession") :
              (session # Null
                 /\ SettlesAs(i, outcome, "createSession", {"client"}, {"ok"}))
                => /\ DOMAIN session' = DOMAIN outcome.body
                   /\ \A f \in DOMAIN outcome.body : session'[f] = outcome.body[f]
          ]_vars

\* C14 witness: the source on the map was registered under the first session
\* (stored by addGoogleMapTiles), and a later createSession resolved and
\* stored the second one
C14_Witness ==
    /\ result.op = "createSession" /\ result.status = "resolved"
    /\ session # Null /\ session = result.session /\ session.session = "tok2"
    /\ session.expiry = "e2" /\ session.imageFormat = "jpeg"
    /\ \E s \in sources : Includes(s.tiles[1], "session=mock-session-token")

\* C15: attribution refreshes started by successive map events may complete
\* out of order and the code keeps no order among them: when the response to
\* a refresh arrives after the response to a refresh started by a later
\* event (for another viewport) was applied, it is applied all the same, so
\* the text ends as the copyright of the earlier, stale viewport.
C15_StaleResponseApplied ==
    [][ \A i \in 1..Len(pending) : \A outcome \in Outcomes("viewport") :
          ( /\ pending[i].overtakenBy \notin {"", pending[i].url}
            /\ SettlesAs(i, outcome, "viewport", {"event"}, {"ok"}) )
            => /\ customAttribution' = outcome.body.copyright
               /\ result'.op = "updateAttribution"
               /\ result'.url = pending[i].url
               /\ result'.overtakenBy = pending[i].overtakenBy
               /\ customAttribution # outcome.body.copyright
                     => redraws' = redraws + 1
      ]_vars

\* C15 witness: two events fired with different viewports, the response for
\* the second was applied first, both refreshes have completed and the text
\* is the copyright returned for the first event's viewport
C15_Witness ==
    /\ handlers = 1 /\ calls = 3 /\ pending = <<>> /\ redraws = 2
    /\ result.op = "updateAttribution" /\ result.ctx = "event"
    /\ result.overtakenBy \notin {"", result.url}
    /\ result.viewport # Null
    /\ customAttribution = result.viewport.copyright

\* C16: in-flight viewport requests are not cancelled.  removeFromMap leaves
\* the requests in flight as they are, and when the response to a refresh
\* started on the map arrives after the manager's attribution control was
\* detached, the refresh still writes the returned copyright to the control and calls its redraw
\* (under the same test as on an attached control: when the copyright differs
\* from the text); the redraw of the detached control raises and is warned.
C16_NoCancellation ==
    [][ /\ RemoveFromMap => pending' = pending
        /\ \A i \in 1..Len(pending) : \A outcome \in Outcomes("viewport") :
              (pending[i].onMap /\ ~attrAttached
                 /\ SettlesAs(i, outcome, "viewport", {"event"}, {"ok"}))
                => /\ customAttribution' = outcome.body.copyright
                   /\ result'.op = "updateAttribution"
                   /\ result'.status = "resolved"
                   /\ customAttribution # outcome.body.copyright
                         => /\ redraws' = redraws + 1
                            /\ result'.warned
                            /\ result'.error = DetachedControl
      ]_vars

\* C16 witness: the manager is off the map again and the refresh an event
\* started while it was on the map has written its copyright to the detached control and redrawn
C16_Witness ==
    /\ handlers = 1 /\ calls = 3 /\ pending = <<>>
    /\ ~attrAttached /\ ~HasSource(sources, SOURCE_NAME)
    /\ result.op = "updateAttribution" /\ result.ctx = "event" /\ result.onMap
    /\ result.warned /\ result.error = DetachedControl
    /\ result.viewport # Null
    /\ customAttribution = result.viewport.copyright /\ redraws = 1

\* C17 (as claimed): after removeFromMap returns, no Google logo control
\* remains in the map's control list, whatever the number and the positions
\* of the logo controls before, two or more adjacent ones included.
C17_NoLogoAfterRemove ==
    [][ (RemoveFromMap /\ result'.status = "returned")
          => LogoControls(controls') = {}
      ]_vars

\* C18: the logo control's add and remove are symmetric and remove is
\* idempotent.  onAdd creates exactly one image element and keeps the
\* reference to it; onRemove of a control that holds an element takes that
\* element out of the document and drops the reference, touching no other
\* element; onRemove of a control that holds none (a second onRemove, or one
\* with no onAdd before) changes nothing and does not raise.
C18_LogoAddRemoveSymmetric ==
    [][ \A c \in 1..MaxLogos :
          /\ \A attach \in BOOLEAN :
                LogoOnAdd(c, attach)
                  => /\ imgCreated' = imgCreated + 1
                     /\ img'[c] = imgCreated'
                     /\ imgInDom' \ imgInDom \subseteq {img'[c]}
                     /\ logoResult'.status = "returned"
          /\ (img[c] # 0 /\ LogoOnRemove(c))
                  => /\ imgInDom' = imgInDom \ {img[c]}
                     /\ img' = [img EXCEPT ![c] = 0]
                     /\ imgCreated' = imgCreated
                     /\ logoResult'.status = "returned"
          /\ (img[c] = 0 /\ LogoOnRemove(c))
                  => /\ UNCHANGED <<img, imgCreated, imgInDom>>
                     /\ logoResult'.status = "returned"
      ]_vars

\* C18 witness: one element was created and is out of the document again,
\* no control holds a reference, and of the three calls made two were
\* onRemove, so one of them had nothing to remove; the last call returned
C18_Witness ==
    /\ calls = 3 /\ imgCreated = 1 /\ imgInDom = {}
    /\ \A c \in 1..MaxLogos : img[c] = 0
    /\ logoResult.op = "onRemove" /\ logoResult.status = "returned"

\* C19: a createSession that fails (a non-success status or a transport
\* failure) leaves the client's session exactly as it was before the call:
\* null stays null and a stored session is retained; the retained session is
\* the one later getViewport and tile-URL calls use.
C19_FailedCreateSessionKeepsSession ==
    [][ /\ \A i \in 1..Len(pending) : \A outcome \in Outcomes("createSession") :
              SettlesAs(i, outcome, "createSession",
                        {"client", "create", "addGoogleMapTiles"}, {"http", "reject"})
                => /\ session' = session
                   /\ result'.status = "rejected"
        /\ \A a \in ViewportArgs :
              ( /\ result.op = "createSession" /\ result.status = "rejected"
                /\ session # Null /\ GetViewport(a) )
                => /\ Len(pending') = Len(pending) + 1
                   /\ Includes(pending'[Len(pending')].url,
                               "session=" \o session.session \o "&")
        /\ ( /\ result.op = "createSession" /\ result.status = "rejected"
              /\ session # Null /\ TileJSONUrl )
                => /\ result'.status = "returned"
                   /\ Includes(result'.url, "session=" \o session.session \o "&")
      ]_vars

\* C19 witness: a createSession was rejected while the session stored by an
\* earlier one is still in place
C19_Witness ==
    /\ result.op = "createSession" /\ result.status = "rejected"
    /\ Includes(result.error, "Error creating session")
    /\ session # Null /\ session.session = "mock-session-token"

\* C20 (as claimed): after removeFromMap, "sourcedata" events no longer make
\* the manager issue viewport requests; over any sequence of addToMap and
\* removeFromMap calls the manager has at most one live refresh handler, so
\* one loaded-source event starts at most one viewport request.
C20_NoRefreshAfterRemove ==
    [][ \A v \in Views, isSourceLoaded \in BOOLEAN :
          SourceData(v, isSourceLoaded)
            => /\ ~attrAttached => pending' = pending
               /\ handlers <= 1
               /\ Len(pending') <= Len(pending) + 1
      ]_vars

\* C21: addToMap on a manager whose client has no active session (made with
\* the constructor, or with its createSession still in flight) fails with the
\* no-active-session error before any registration: the map gets no source,
\* layer, control or event handler.
C21_AddToMapWithoutSession ==
    [][ (session = Null /\ AddToMap)
          => /\ result'.op = "addToMap" /\ result'.status = "threw"
             /\ result'.error = NoActiveSession
             /\ UNCHANGED <<mapVars, attrVars, pending, session>>
      ]_vars

\* C21 witness: addToMap failed for the missing session while the client's
\* createSession is still in flight, and the map holds nothing of the manager
C21_Witness ==
    /\ result.op = "addToMap" /\ result.status = "threw"
    /\ result.error = NoActiveSession
    /\ handle /\ session = Null /\ NothingRegistered /\ logosCreated = 0
    /\ \E i \in 1..Len(pending) :
          pending[i].kind = "createSession" /\ pending[i].ctx = "client"

\* C22: addToMap called again on the same map, with no removeFromMap since
\* the addToMap that put the manager's source there, fails with the map's
\* duplicate-registration error at the source step: no second layer,
\* attribution control, logo control or event handler is added.
C22_SecondAddToMapFails ==
    [][ (session # Null /\ HasSource(sources, SOURCE_NAME) /\ AddToMap)
          => /\ result'.op = "addToMap" /\ result'.status = "threw"
             /\ result'.error = "Source \"google-map-tiles\" already exists."
             /\ UNCHANGED <<mapVars, attrVars, pending, session>>
      ]_vars

\* C22 witness: the second addToMap failed with the duplicate-source error
\* and the map holds what the first one registered, once
C22_Witness ==
    /\ result.op = "addToMap" /\ result.status = "threw"
    /\ result.error = SourceExists(SOURCE_NAME)
    /\ Cardinality(sources) = 1 /\ Len(layers) = 1 /\ handlers = 1
    /\ attrAttached /\ Cardinality(LogoControls(controls)) = 1

====
